---- MODULE Spec2Model ----
(***************************************************************************)
(* journal-watch: a live tail of the systemd journal.                      *)
(*                                                                         *)
(* Spec        main() and run(): open, history replay, the epoll wait     *)
(*             loop, the append drain and the reopen path, interleaved    *)
(*             with the journal's writers (AppendRecord, Invalidate).     *)
(* SpecRender  print_journal_message on one record, with fetchField call  *)
(*             by call and getUsername, for every record of Entries and   *)
(*             every sequence of sd_journal_get_data results (at most     *)
(*             MaxFaults fetches of a record end in an error or timeout). *)
(*                                                                         *)
(* The journal is the sequence of records 1..N; record i carries the      *)
(* monotonic timestamp i of one boot.  A rendered line is identified in   *)
(* Spec by the index of the record it was composed from.                  *)
(*                                                                         *)
(* The library calls are modelled from sd-journal(3):                     *)
(*   - a fresh handle is positioned at the head, sd_journal_seek_tail     *)
(*     positions after the most recent entry, a seek makes no entry the   *)
(*     current one;                                                        *)
(*   - sd_journal_next / sd_journal_previous return 1 when they moved and *)
(*     0 at the end / start, leaving the position as it was;              *)
(*   - sd_journal_get_realtime_usec and sd_journal_get_monotonic_usec     *)
(*     fail (-EADDRNOTAVAIL) exactly when no entry is current.            *)
(* Calls whose failure run() tests fail nondeterministically.  A failing  *)
(* system call sets errno, a failing sd_journal_* call returns its code   *)
(* and leaves errno as it was, a successful call leaves errno alone.      *)
(***************************************************************************)
EXTENDS Integers, Sequences, FiniteSets, TLC

\* ------------------------------------------------------------- bounds
\* Records in the journal when the program starts: a short journal of
\* 0..MaxShort records, or one of history - 1 .. history + MaxOver records.
MaxShort == 1
MaxOver == 1
\* Records appended while the program runs.
MaxAppends == 2
\* Invalidation (or unclassified) notifications while the program runs.
MaxInvalidations == 1

\* fetchField calls of one record that end in an error or a timeout.
MaxFaults == 1

\* -------------------------------------------------- program constants
history == 20
EINTR == 4
\* Any errno value other than 0 and EINTR.
EIO == EINTR + 1
EXIT_FAILURE == 1
SD_JOURNAL_NOP == 0
SD_JOURNAL_APPEND == 1
SD_JOURNAL_INVALIDATE == 2
\* A classification that is none of the three above ("or something").
SD_JOURNAL_OTHER == SD_JOURNAL_INVALIDATE + 1
\* fetchField: for (retries = 0; retries < 10; retries++).
RetryLimit == 10
\* LogLevel.
Emergency == 0
Alert == 1
Critical == 2
Error == 3
Warning == 4
Notice == 5
Informational == 6
Debug == 7
\* (uint64_t) -1lu, the "no timeout" value.
NoTimeout == 0 - 1

VARIABLES
    pc,           \* position of the single thread of control
    N,            \* records in the journal
    pending,      \* notification waiting on the journal's descriptor
    appended,     \* Append steps taken
    invals,       \* Invalidate steps taken
    journal,      \* *journal: the handle run() works on (0: none)
    openHandles,  \* handles opened and not yet closed
    handles,      \* handles opened so far
    cursor,       \* position of *journal: [loc, idx]
    fd,           \* run()'s fd (the descriptor of handle fd; -1: none)
    epoll_fd,     \* TRUE once the epoll instance exists
    epollSet,     \* descriptors registered with the epoll instance
    errno,
    timeout,      \* run()'s timeout
    i,            \* loop counter of the two history loops
    events,       \* run()'s events: what epoll_wait returned
    seek,         \* run()'s seek flag of the reopen path
    usec,         \* captured monotonic timestamp (0: nothing captured)
    out,          \* standard output, in order
    err,          \* standard error, in order
    ret,          \* value run() returned (-1: has not returned)
    exitCode,     \* process exit code (-1: still running)
    \* history variables
    staleUse,     \* a closed handle was passed to the library
    waited,       \* epoll_wait has been called
    back,         \* result of the latest sd_journal_previous of the history loop
    lastType,     \* most recent classification by sd_journal_process
    sinceWake,    \* "none" | "draining" | "drained" | "reopening" | "reopened"
    wakeFrom,     \* first record sd_journal_next would yield at the wake-up
    wakeN,        \* records present at the wake-up
    wakeOut,      \* Len(out) at the wake-up
    lastSeek,     \* "none" | "ok" | "failed": sd_journal_seek_monotonic_usec
    reopens,      \* reopen paths entered
    retFrom,      \* the call whose failure made run() return
    \* print_journal_message, fetchField (SpecRender)
    rpc,          \* the field print_journal_message is fetching, or "start" / "done" / "idle"
    entry,        \* the current record: field name -> value, Absent when it has none
    retries,      \* fetchField's retries
    statuses,     \* statuses sd_journal_get_data returned in the current fetchField call
    faults,       \* fetchField calls of this record that ended in an error or a timeout
    fetched,      \* field name -> what fetchField returned for it (NotFetched: not called)
    level,        \* print_journal_message's level
    color,        \* print_journal_message's color
    uid,          \* print_journal_message's uid
    identifier,   \* print_journal_message's identifier
    stdout,       \* what the rendering wrote to standard output, one element per write
    stderr,       \* what the rendering wrote to standard error
    pjmRet,       \* print_journal_message's result (1: has not returned)
    \* getUsername (SpecUsername)
    uidInput,     \* the string getUsername is called with
    username      \* what getUsername returned

runVars == <<pc, N, pending, appended, invals, journal, openHandles, handles,
          cursor, fd, epoll_fd, epollSet, errno, timeout, i, seek, usec,
          out, err, ret, exitCode, staleUse, waited, back, events,
          lastType, sinceWake, wakeFrom, wakeN, wakeOut, lastSeek, reopens,
          retFrom>>

printerVars == <<rpc, entry, retries, statuses, faults, fetched, level, color,
                 uid, identifier, stdout, stderr, pjmRet>>

resolverVars == <<uidInput, username>>

renderVars == <<printerVars, resolverVars>>

vars == <<runVars, renderVars>>

envVars == <<N, pending, appended, invals>>
handleVars == <<journal, openHandles, handles>>
pollVars == <<fd, epoll_fd, epollSet>>
ioVars == <<out, err>>
exitVars == <<ret, exitCode, retFrom>>
wakeVars == <<lastType, sinceWake, wakeFrom, wakeN, wakeOut>>
reopenVars == <<seek, usec, lastSeek, reopens>>

\* ------------------------------------------------------------ helpers
InitialRecords == (0..MaxShort) \cup ((history - 1)..(history + MaxOver))

Min(a, b) == IF a < b THEN a ELSE b

\* One rendered record line on standard output.
Line(r) == [k |-> "line", r |-> r]

\* perror(msg): one message on standard error.
perror(msg) == Append(err, msg)

\* puts(msg): one line of text on standard output.
puts(msg) == Append(out, [k |-> "notice", r |-> 0])

\* ------------------------------------------------ the journal's cursor
AtHead == [loc |-> "head", idx |-> 0]
AtTail == [loc |-> "tail", idx |-> 0]
AtSeek(t) == [loc |-> "seek", idx |-> t]
AtEntry(r) == [loc |-> "at", idx |-> r]

\* The record sd_journal_next would make current (n + 1: none).
NextIndex(c, n) ==
    CASE c.loc = "head" -> 1
      [] c.loc = "tail" -> n + 1
      [] c.loc = "seek" -> c.idx
      [] OTHER -> c.idx + 1

\* The record sd_journal_previous would make current (0: none).
PreviousIndex(c, n) ==
    CASE c.loc = "head" -> 0
      [] c.loc = "tail" -> n
      [] c.loc = "seek" -> Min(c.idx, n)
      [] OTHER -> c.idx - 1

\* sd_journal_next: [c: the new position, r: 1 moved, 0 no further record].
sd_journal_next(c, n) ==
    IF NextIndex(c, n) <= n
    THEN [c |-> AtEntry(NextIndex(c, n)), r |-> 1]
    ELSE [c |-> c, r |-> 0]

\* sd_journal_previous: [c, r], r = 0 at the start of the journal.
sd_journal_previous(c, n) ==
    IF PreviousIndex(c, n) >= 1
    THEN [c |-> AtEntry(PreviousIndex(c, n)), r |-> 1]
    ELSE [c |-> c, r |-> 0]

\* sd_journal_get_realtime_usec / _get_monotonic_usec succeed on a current
\* entry only.
HasEntry(c) == c.loc = "at"

\* print_journal_message as run() sees it: nothing is written when the
\* realtime timestamp cannot be read, else one line for the current record.
print_journal_message(c, o) ==
    IF HasEntry(c) THEN Append(o, Line(c.idx)) ELSE o

\* errno after a failing sd_journal_* call: the call reports its error as
\* its (negative) result and leaves errno as it was.
SdErrno(e) == {e}

\* A library call on handle h: stale when h has been closed.
Use(h) == staleUse' = (staleUse \/ h \notin openHandles)

\* run() returns value v after the call named by from failed.
Return(v, from) ==
    /\ ret' = v
    /\ retFrom' = from
    /\ pc' = "returned"
    /\ UNCHANGED exitCode

\* ------------------------------------------------------------ writers
\* The program's next step reads the journal's records or its pending
\* notification.  A writer's step is taken at such a point: the program's
\* other steps read neither, so a writer's step between two of them gives
\* the same run as the same step taken at the next read.
ReadsRecords ==
    \/ pc \in {"history_replay", "drain", "process"}
    \/ pc \in {"history_back", "reopen_previous"} /\ cursor.loc \in {"tail", "seek"}

ReadsPending == pc \in {"epoll_wait", "process"}

\* A writer appends one record; the journal's descriptor becomes readable.
AppendRecord ==
    /\ ReadsRecords \/ ReadsPending
    /\ appended < MaxAppends
    /\ N' = N + 1
    /\ appended' = appended + 1
    /\ pending' = IF pending \in {"invalidate", "other"} THEN pending ELSE "append"
    /\ UNCHANGED <<pc, invals, handleVars, cursor, pollVars, errno, timeout, i,
                   ioVars, exitVars, staleUse, waited, back, events,
                   wakeVars, reopenVars>>
    /\ UNCHANGED renderVars

\* The journal files are rotated or vacuumed (or an event the library does
\* not classify arrives), at most max times.
InvalidateUpTo(max) ==
    /\ ReadsPending
    /\ invals < max
    /\ invals' = invals + 1
    /\ \E kind \in {"invalidate", "other"} : pending' = kind
    /\ UNCHANGED <<pc, N, appended, handleVars, cursor, pollVars, errno,
                   timeout, i, ioVars, exitVars, staleUse, waited, back,
                   events, wakeVars, reopenVars>>
    /\ UNCHANGED renderVars

Invalidate == InvalidateUpTo(MaxInvalidations)

\* --------------------------------------------------------------- main
\* main: sd_journal_open, then run(); EXIT_FAILURE when the open fails.
MainOpen ==
    /\ pc = "main_open"
    /\ \/ /\ journal' = 1
          /\ openHandles' = {1}
          /\ handles' = 1
          /\ cursor' = AtHead
          /\ pc' = "seek_tail"
          /\ UNCHANGED <<err, exitCode, errno>>
       \/ /\ err' = perror("Failed to open system journal")
          /\ errno' \in SdErrno(errno)
          /\ exitCode' = EXIT_FAILURE
          /\ pc' = "exited"
          /\ UNCHANGED <<handleVars, cursor>>
    /\ UNCHANGED <<envVars, pollVars, timeout, i, out, ret, retFrom, staleUse,
                   waited, back, events, wakeVars, reopenVars>>
    /\ UNCHANGED renderVars

\* main returning what run() returned instead of EXIT_FAILURE.
MainCloseReturnsRet ==
    /\ pc = "returned"
    /\ IF journal # 0
       THEN /\ Use(journal)
            /\ openHandles' = openHandles \ {journal}
            /\ epollSet' = epollSet \ {journal}
       ELSE UNCHANGED <<staleUse, openHandles, epollSet>>
    /\ exitCode' = ret
    /\ pc' = "exited"
    /\ UNCHANGED <<envVars, journal, handles, cursor, fd, epoll_fd, errno,
                   timeout, i, ioVars, ret, retFrom, waited, back, events,
                   wakeVars, reopenVars>>
    /\ UNCHANGED renderVars

\* main after run() returned: close the handle, return EXIT_FAILURE.
MainClose ==
    /\ pc = "returned"
    /\ IF journal # 0
       THEN /\ Use(journal)
            /\ openHandles' = openHandles \ {journal}
            /\ epollSet' = epollSet \ {journal}
       ELSE UNCHANGED <<staleUse, openHandles, epollSet>>
    /\ exitCode' = EXIT_FAILURE
    /\ pc' = "exited"
    /\ UNCHANGED <<envVars, journal, handles, cursor, fd, epoll_fd, errno,
                   timeout, i, ioVars, ret, retFrom, waited, back, events,
                   wakeVars, reopenVars>>
    /\ UNCHANGED renderVars

\* ---------------------------------------------------------------- run
\* sd_journal_seek_tail at the start of run().
SeekTail ==
    /\ pc = "seek_tail"
    /\ Use(journal)
    /\ \/ /\ cursor' = AtTail
          /\ i' = 0
          /\ pc' = "history_back"
          /\ UNCHANGED <<err, errno, exitVars>>
       \/ /\ err' = perror("Failed to seek to the end of system journal")
          /\ errno' \in SdErrno(errno)
          /\ Return(errno', "seek_tail")
          /\ UNCHANGED <<cursor, i>>
    /\ UNCHANGED <<envVars, handleVars, pollVars, timeout, out, waited, back,
                   events, wakeVars, reopenVars>>
    /\ UNCHANGED renderVars

\* The test of the first history loop taking the start of the journal for
\* a failure.
BackFailsAtStart(r) == r <= 0

\* The test of the first history loop: sd_journal_previous(*journal) < 0.
BackFails(r) == r < 0

\* One iteration of the first history loop: sd_journal_previous, which
\* moves (1), is at the start of the journal (0) or fails (negative).
HistoryBack ==
    /\ pc = "history_back"
    /\ Use(journal)
    /\ \E r \in {sd_journal_previous(cursor, N).r, 0 - 1} :
          /\ back' = r
          /\ IF BackFails(r)
             THEN /\ err' = perror("Failed to move backwards in journal")
                  /\ errno' \in SdErrno(errno)
                  /\ Return(errno', "previous")
                  /\ UNCHANGED <<cursor, i>>
             ELSE /\ cursor' = sd_journal_previous(cursor, N).c
                  /\ i' = IF i + 1 < history THEN i + 1 ELSE 0
                  /\ pc' = IF i + 1 < history THEN "history_back" ELSE "history_replay"
                  /\ UNCHANGED <<err, errno, exitVars>>
    /\ UNCHANGED <<envVars, handleVars, pollVars, timeout, out, waited,
                   events, wakeVars, reopenVars>>
    /\ UNCHANGED renderVars

\* One iteration of the second history loop: print_journal_message, then
\* sd_journal_next.
HistoryReplay ==
    /\ pc = "history_replay"
    /\ Use(journal)
    /\ out' = print_journal_message(cursor, out)
    /\ cursor' = sd_journal_next(cursor, N).c
    /\ i' = i + 1
    /\ pc' = IF i + 1 < history THEN "history_replay" ELSE "get_fd"
    /\ UNCHANGED <<envVars, handleVars, pollVars, errno, timeout, err,
                   exitVars, waited, back, events, wakeVars, reopenVars>>
    /\ UNCHANGED renderVars

\* sd_journal_get_fd before the loop.
GetFd ==
    /\ pc = "get_fd"
    /\ Use(journal)
    /\ \/ /\ fd' = journal
          /\ pc' = "epoll_create"
          /\ UNCHANGED <<err, errno, exitVars>>
       \/ /\ fd' = -1
          /\ err' = perror("Failed to obtain system journal file descriptor")
          /\ errno' \in SdErrno(errno)
          /\ Return(errno', "get_fd")
    /\ UNCHANGED <<envVars, handleVars, cursor, epoll_fd, epollSet, timeout, i,
                   out, waited, back, events, wakeVars, reopenVars>>
    /\ UNCHANGED renderVars

\* epoll_create1.
EpollCreate ==
    /\ pc = "epoll_create"
    /\ \/ /\ epoll_fd' = TRUE
          /\ pc' = "epoll_add"
          /\ UNCHANGED <<err, errno, exitVars>>
       \/ /\ err' = perror("Failed to create an epoll instance")
          /\ errno' = EIO
          /\ Return(errno', "epoll_create1")
          /\ UNCHANGED epoll_fd
    /\ UNCHANGED <<envVars, handleVars, cursor, fd, epollSet, timeout, i, out,
                   staleUse, waited, back, events, wakeVars, reopenVars>>
    /\ UNCHANGED renderVars

\* epoll_ctl(EPOLL_CTL_ADD) before the loop, then timeout = -1lu.
EpollAdd ==
    /\ pc = "epoll_add"
    /\ \/ /\ epollSet' = epollSet \cup {fd}
          /\ timeout' = NoTimeout
          /\ pc' = "get_timeout"
          /\ UNCHANGED <<err, errno, exitVars>>
       \/ /\ err' = perror("Failed to add system journal file descriptor to epoll instance")
          /\ errno' = EIO
          /\ Return(errno', "epoll_ctl")
          /\ UNCHANGED <<epollSet, timeout>>
    /\ UNCHANGED <<envVars, handleVars, cursor, fd, epoll_fd, i, out, staleUse,
                   waited, back, events, wakeVars, reopenVars>>
    /\ UNCHANGED renderVars

\* sd_journal_get_timeout failed: nothing was stored.
QueryFailed == 0 - 2

\* The conversion at the loop's top: microseconds to milliseconds, or one
\* second when the journal reports no timeout.
ConvertTimeout(t) == IF t # NoTimeout THEN t \div 1000 ELSE 1000

\* Top of the loop: sd_journal_get_timeout, which stores what the journal
\* reports in timeout or fails and leaves timeout as it was, then the
\* conversion.  A new iteration starts: its events is not yet set.
GetTimeoutFrom(reports) ==
    /\ pc = "get_timeout"
    /\ Use(journal)
    /\ \E report \in reports :
          timeout' = ConvertTimeout(IF report = QueryFailed THEN timeout ELSE report)
    /\ events' = 0
    /\ pc' = "epoll_wait"
    /\ UNCHANGED <<envVars, handleVars, cursor, pollVars, errno, i, ioVars,
                   exitVars, waited, back, wakeVars, reopenVars>>
    /\ UNCHANGED renderVars

\* In Spec the journal watches its files with inotify and reports that it
\* needs no timeout.
GetTimeout == GetTimeoutFrom({NoTimeout})

\* What epoll_wait may do: be interrupted, fail, time out, or report the
\* descriptor ready (a wake-up with nothing pending is classified NOP).
WaitOutcomes ==
    {"eintr", "error", "fired"} \cup (IF pending = "none" THEN {"timeout"} ELSE {})

\* Number of events epoll_wait returns for an outcome.
Events(o) == CASE o = "fired" -> 1 [] o = "timeout" -> 0 [] OTHER -> 0 - 1

\* errno after epoll_wait.
WaitErrno(o, e) == CASE o = "eintr" -> EINTR [] o = "error" -> EIO [] OTHER -> e

\* The tests after epoll_wait without the one for EINTR.
AfterWaitNoEintr(o, e) ==
    IF Events(o) < 0 THEN "returned"
    ELSE IF Events(o) = 0 THEN "get_timeout"
    ELSE "process"

\* Where the tests after epoll_wait lead: errno == EINTR first, then events.
AfterWait(o, e) ==
    IF WaitErrno(o, e) = EINTR THEN "get_timeout"
    ELSE IF Events(o) < 0 THEN "returned"
    ELSE IF Events(o) = 0 THEN "get_timeout"
    ELSE "process"

\* epoll_wait and the three tests that follow it.
EpollWait ==
    /\ pc = "epoll_wait"
    /\ \E o \in WaitOutcomes :
          /\ events' = Events(o)
          /\ errno' = WaitErrno(o, errno)
          /\ IF AfterWait(o, errno) = "returned"
             THEN /\ err' = perror("epoll_wait() failed")
                  /\ Return(errno', "epoll_wait")
             ELSE /\ pc' = AfterWait(o, errno)
                  /\ UNCHANGED <<err, exitVars>>
    /\ waited' = TRUE
    /\ UNCHANGED back
    /\ lastType' = -1
    /\ sinceWake' = "none"
    /\ wakeFrom' = 0
    /\ wakeN' = 0
    /\ wakeOut' = 0
    /\ UNCHANGED <<envVars, handleVars, cursor, pollVars, timeout, i, out,
                   staleUse, reopenVars>>
    /\ UNCHANGED renderVars

\* The classification sd_journal_process gives the pending notification.
Classify(p) ==
    CASE p = "append" -> SD_JOURNAL_APPEND
      [] p = "invalidate" -> SD_JOURNAL_INVALIDATE
      [] p = "other" -> SD_JOURNAL_OTHER
      [] OTHER -> SD_JOURNAL_NOP

\* Where run() goes for a classification.
Dispatch(type) ==
    IF type = SD_JOURNAL_NOP THEN "get_timeout"
    ELSE IF type = SD_JOURNAL_APPEND THEN "drain"
    ELSE "reopen"

\* sd_journal_process and the dispatch on its result.
Process ==
    /\ pc = "process"
    /\ Use(journal)
    /\ pending' = "none"
    /\ \/ /\ lastType' = Classify(pending)
          /\ pc' = Dispatch(Classify(pending))
          /\ sinceWake' = CASE Dispatch(Classify(pending)) = "drain" -> "draining"
                            [] Dispatch(Classify(pending)) = "reopen" -> "reopening"
                            [] OTHER -> "none"
          /\ wakeFrom' = NextIndex(cursor, N)
          /\ wakeN' = N
          /\ wakeOut' = Len(out)
          /\ UNCHANGED <<err, errno, exitVars>>
       \/ /\ err' = perror("Failed to process system journal event")
          /\ errno' \in SdErrno(errno)
          /\ Return(errno', "process")
          /\ UNCHANGED wakeVars
    /\ UNCHANGED <<N, appended, invals, handleVars, cursor, pollVars, timeout,
                   i, out, waited, back, events, reopenVars>>
    /\ UNCHANGED renderVars

\* Drain as an if instead of a while: one record per wake-up.
DrainOnce ==
    /\ pc = "drain"
    /\ Use(journal)
    /\ cursor' = sd_journal_next(cursor, N).c
    /\ out' = IF sd_journal_next(cursor, N).r # 0
              THEN print_journal_message(cursor', out) ELSE out
    /\ pc' = "get_timeout"
    /\ sinceWake' = "drained"
    /\ UNCHANGED <<envVars, handleVars, pollVars, errno, timeout, i, err,
                   exitVars, waited, back, events, lastType, wakeFrom, wakeN,
                   wakeOut, reopenVars>>
    /\ UNCHANGED renderVars

\* One test of the drain loop: while (sd_journal_next) print_journal_message.
Drain ==
    /\ pc = "drain"
    /\ Use(journal)
    /\ cursor' = sd_journal_next(cursor, N).c
    /\ IF sd_journal_next(cursor, N).r # 0
       THEN /\ out' = print_journal_message(cursor', out)
            /\ pc' = "drain"
            /\ UNCHANGED sinceWake
       ELSE /\ out' = out
            /\ pc' = "get_timeout"
            /\ sinceWake' = "drained"
    /\ UNCHANGED <<envVars, handleVars, pollVars, errno, timeout, i, err,
                   exitVars, waited, back, events, lastType, wakeFrom, wakeN,
                   wakeOut, reopenVars>>
    /\ UNCHANGED renderVars

\* Reopen path: the notice and epoll_ctl(EPOLL_CTL_DEL, fd).
ReopenNotice ==
    /\ pc = "reopen"
    /\ out' = puts("Log object invalidated, re-opening")
    /\ epollSet' = epollSet \ {fd}
    /\ reopens' = reopens + 1
    /\ pc' = "reopen_previous"
    /\ UNCHANGED <<envVars, handleVars, cursor, fd, epoll_fd, errno, timeout, i,
                   err, exitVars, staleUse, waited, back, events, wakeVars, seek,
                   usec, lastSeek>>
    /\ UNCHANGED renderVars

\* Reopen path: sd_journal_previous (result ignored).
ReopenPrevious ==
    /\ pc = "reopen_previous"
    /\ Use(journal)
    /\ cursor' = sd_journal_previous(cursor, N).c
    /\ pc' = "reopen_capture"
    /\ UNCHANGED <<envVars, handleVars, pollVars, errno, timeout, i, ioVars,
                   exitVars, waited, back, events, wakeVars, reopenVars>>
    /\ UNCHANGED renderVars

\* Reopen path: sd_journal_get_monotonic_usec sets the seek flag.
ReopenCapture ==
    /\ pc = "reopen_capture"
    /\ Use(journal)
    /\ IF HasEntry(cursor)
       THEN /\ seek' = TRUE
            /\ usec' = cursor.idx
            /\ UNCHANGED <<err, errno>>
       ELSE /\ seek' = FALSE
            /\ err' = perror("Failed to obtain monotonic timestap for current journal entry")
            /\ errno' \in SdErrno(errno)
            /\ UNCHANGED usec
    /\ pc' = "reopen_close"
    /\ UNCHANGED <<envVars, handleVars, cursor, pollVars, timeout, i, out,
                   exitVars, waited, back, events, wakeVars, lastSeek, reopens>>
    /\ UNCHANGED renderVars

\* The reopen path without its sd_journal_close.
ReopenCloseLeak ==
    /\ pc = "reopen_close"
    /\ pc' = "reopen_open"
    /\ UNCHANGED <<envVars, handleVars, cursor, pollVars, errno, timeout, i,
                   ioVars, exitVars, staleUse, waited, back, events, wakeVars,
                   reopenVars>>
    /\ UNCHANGED renderVars

\* Reopen path: sd_journal_close; closing the handle closes its descriptor,
\* which leaves every epoll set.
ReopenClose ==
    /\ pc = "reopen_close"
    /\ Use(journal)
    /\ openHandles' = openHandles \ {journal}
    /\ epollSet' = epollSet \ {journal}
    /\ pc' = "reopen_open"
    /\ UNCHANGED <<envVars, journal, handles, cursor, fd, epoll_fd, errno,
                   timeout, i, ioVars, exitVars, waited, back, events, wakeVars,
                   reopenVars>>
    /\ UNCHANGED renderVars

\* Reopen path: sd_journal_open; exit(EXIT_FAILURE) when it fails.
ReopenOpen ==
    /\ pc = "reopen_open"
    /\ \/ /\ journal' = handles + 1
          /\ handles' = handles + 1
          /\ openHandles' = openHandles \cup {handles + 1}
          /\ cursor' = AtHead
          /\ pc' = "reopen_seek"
          /\ UNCHANGED <<err, errno, exitCode>>
       \/ /\ err' = perror("Failed to open system journal")
          /\ errno' \in SdErrno(errno)
          /\ exitCode' = EXIT_FAILURE
          /\ pc' = "exited"
          /\ UNCHANGED <<handleVars, cursor>>
    /\ UNCHANGED <<envVars, pollVars, timeout, i, out, ret, retFrom, staleUse,
                   waited, back, events, wakeVars, reopenVars>>
    /\ UNCHANGED renderVars

\* Reopen path: if (seek) sd_journal_seek_monotonic_usec, and
\* sd_journal_seek_tail when that fails.
ReopenSeek ==
    /\ pc = "reopen_seek"
    /\ IF seek
       THEN /\ Use(journal)
            /\ \/ /\ cursor' = AtSeek(usec)
                  /\ lastSeek' = "ok"
                  /\ UNCHANGED <<err, errno>>
               \/ /\ err' = perror("Failed to seek to last seen entry")
                  /\ errno' \in SdErrno(errno)
                  /\ cursor' = AtTail
                  /\ lastSeek' = "failed"
       ELSE /\ lastSeek' = "none"
            /\ UNCHANGED <<cursor, err, errno, staleUse>>
    /\ pc' = "reopen_get_fd"
    /\ UNCHANGED <<envVars, handleVars, pollVars, timeout, i, out, exitVars,
                   waited, back, events, wakeVars, seek, usec, reopens>>
    /\ UNCHANGED renderVars

\* Reopen path: sd_journal_get_fd on the new handle.
ReopenGetFd ==
    /\ pc = "reopen_get_fd"
    /\ Use(journal)
    /\ \/ /\ fd' = journal
          /\ pc' = "reopen_add"
          /\ UNCHANGED <<err, errno, exitVars>>
       \/ /\ fd' = -1
          /\ err' = perror("Failed to obtain system journal file descriptor")
          /\ errno' \in SdErrno(errno)
          /\ Return(errno', "get_fd")
    /\ UNCHANGED <<envVars, handleVars, cursor, epoll_fd, epollSet, timeout, i,
                   out, waited, back, events, wakeVars, reopenVars>>
    /\ UNCHANGED renderVars

\* Reopen path: epoll_ctl(EPOLL_CTL_ADD, fd), then back to the loop's top.
ReopenAdd ==
    /\ pc = "reopen_add"
    /\ \/ /\ epollSet' = epollSet \cup {fd}
          /\ pc' = "get_timeout"
          /\ sinceWake' = "reopened"
          /\ UNCHANGED <<err, errno, exitVars>>
       \/ /\ err' = perror("Failed to add system journal file descriptor to epoll instance")
          /\ errno' = EIO
          /\ Return(errno', "epoll_ctl")
          /\ UNCHANGED <<epollSet, sinceWake>>
    /\ UNCHANGED <<envVars, handleVars, cursor, fd, epoll_fd, timeout, i, out,
                   staleUse, waited, back, events, lastType, wakeFrom, wakeN,
                   wakeOut, reopenVars>>
    /\ UNCHANGED renderVars

\* ------------------------------------------------------ specification
\* errno when main starts: 0, or left non-zero by start-up code.
RunInit(start, records, errnos) ==
    /\ pc = start
    /\ N \in records
    /\ pending = "none"
    /\ appended = 0
    /\ invals = 0
    /\ journal = 0
    /\ openHandles = {}
    /\ handles = 0
    /\ cursor = AtHead
    /\ fd = -1
    /\ epoll_fd = FALSE
    /\ epollSet = {}
    /\ errno \in errnos
    /\ timeout = NoTimeout
    /\ i = 0
    /\ seek = TRUE
    /\ usec = 0
    /\ out = <<>>
    /\ err = <<>>
    /\ ret = -1
    /\ exitCode = -1
    /\ staleUse = FALSE
    /\ waited = FALSE
    /\ back = 1
    /\ events = 0
    /\ lastType = -1
    /\ sinceWake = "none"
    /\ wakeFrom = 0
    /\ wakeN = 0
    /\ wakeOut = 0
    /\ lastSeek = "none"
    /\ reopens = 0
    /\ retFrom = "none"

\* No record is being rendered field by field.
PrinterIdle ==
    /\ rpc = "idle"
    /\ entry = <<>>
    /\ retries = 0
    /\ statuses = <<>>
    /\ faults = 0
    /\ fetched = <<>>
    /\ level = 0
    /\ color = <<>>
    /\ uid = <<>>
    /\ identifier = <<>>
    /\ stdout = <<>>
    /\ stderr = <<>>
    /\ pjmRet = 1

\* getUsername is not being followed on its own.
ResolverIdle ==
    /\ uidInput = <<>>
    /\ username = <<>>

RenderIdle == PrinterIdle /\ ResolverIdle

Init == RunInit("main_open", InitialRecords, {0, EIO}) /\ RenderIdle

Next ==
    \/ AppendRecord
    \/ Invalidate
    \/ MainOpen
    \/ MainClose
    \/ SeekTail
    \/ HistoryBack
    \/ HistoryReplay
    \/ GetFd
    \/ EpollCreate
    \/ EpollAdd
    \/ GetTimeout
    \/ EpollWait
    \/ Process
    \/ Drain
    \/ ReopenNotice
    \/ ReopenPrevious
    \/ ReopenCapture
    \/ ReopenClose
    \/ ReopenOpen
    \/ ReopenSeek
    \/ ReopenGetFd
    \/ ReopenAdd

Spec == Init /\ [][Next]_vars

\* ---------------------------------------------------------------------
\* The program on a journal of history records, errno being 0 at the
\* start, with one invalidation more than in Spec: a reopen can follow a
\* reopen.
\* ---------------------------------------------------------------------
InvalidateAgain == InvalidateUpTo(MaxInvalidations + 1)

InitReopen == RunInit("main_open", {history}, {0}) /\ RenderIdle

NextReopen ==
    \/ AppendRecord
    \/ InvalidateAgain
    \/ MainOpen
    \/ MainClose
    \/ SeekTail
    \/ HistoryBack
    \/ HistoryReplay
    \/ GetFd
    \/ EpollCreate
    \/ EpollAdd
    \/ GetTimeout
    \/ EpollWait
    \/ Process
    \/ Drain
    \/ ReopenNotice
    \/ ReopenPrevious
    \/ ReopenCapture
    \/ ReopenClose
    \/ ReopenOpen
    \/ ReopenSeek
    \/ ReopenGetFd
    \/ ReopenAdd

SpecReopen == InitReopen /\ [][NextReopen]_vars

\* ---------------------------------------------------------------------
\* The wait loop on a quiet journal with every answer of
\* sd_journal_get_timeout: the program from its start, nothing appended or
\* invalidated, so that every wake-up is classified as a no-op.
\* ---------------------------------------------------------------------
\* Timeouts the journal may report, in microseconds (all below 2^31
\* milliseconds, so that the conversion to epoll_wait's int keeps them).
TimeoutReports == {NoTimeout, 0, 1, 999, 1000, 1001, 250000, 2000000000}

QueryTimeout == GetTimeoutFrom(TimeoutReports \cup {QueryFailed})

InitWait == RunInit("main_open", {0}, {0}) /\ RenderIdle

NextWait ==
    \/ MainOpen
    \/ MainClose
    \/ SeekTail
    \/ HistoryBack
    \/ HistoryReplay
    \/ GetFd
    \/ EpollCreate
    \/ EpollAdd
    \/ QueryTimeout
    \/ EpollWait
    \/ Process

SpecWait == InitWait /\ [][NextWait]_vars

\* ---------------------------------------------------------------------
\* Rendering one record: print_journal_message, fetchField, getUsername.
\* A string is the sequence of its characters; standard output and
\* standard error are the sequences of the strings written to them.
\* ---------------------------------------------------------------------
Absent == <<"<absent>">>
NotFetched == <<"<not fetched>">>

Fields == {"PRIORITY", "_HOSTNAME", "_UID", "_AUDIT_LOGINUID",
           "SYSLOG_IDENTIFIER", "_COMM", "_PID", "MESSAGE"}

\* The characters of a field's name.
FieldName(f) ==
    CASE f = "PRIORITY" -> <<"P", "R", "I", "O", "R", "I", "T", "Y">>
      [] f = "_HOSTNAME" -> <<"_", "H", "O", "S", "T", "N", "A", "M", "E">>
      [] f = "_UID" -> <<"_", "U", "I", "D">>
      [] f = "_AUDIT_LOGINUID" -> <<"_", "A", "U", "D", "I", "T", "_", "L", "O", "G", "I", "N", "U", "I", "D">>
      [] f = "SYSLOG_IDENTIFIER" -> <<"S", "Y", "S", "L", "O", "G", "_", "I", "D", "E", "N", "T", "I", "F", "I", "E", "R">>
      [] f = "_COMM" -> <<"_", "C", "O", "M", "M">>
      [] f = "_PID" -> <<"_", "P", "I", "D">>
      [] OTHER -> <<"M", "E", "S", "S", "A", "G", "E">>

\* The records rendered: every combination of these field values, and the
\* records Plain(p).
FieldValues(f) ==
    CASE f = "PRIORITY" -> {Absent, <<"3">>, <<"x">>}
      [] f = "_HOSTNAME" -> {<<"h">>}
      [] f = "_UID" -> {Absent, <<"0">>, <<"1", "5">>}
      [] f = "_AUDIT_LOGINUID" -> {Absent, <<"7">>}
      [] f = "SYSLOG_IDENTIFIER" -> {Absent, <<"s">>}
      [] f = "_COMM" -> {<<"c">>}
      [] f = "_PID" -> {Absent, <<"4">>}
      [] OTHER -> {<<"m">>}

\* PRIORITY values of further records: every level, values outside 0..7,
\* the empty string, strings with and without a leading integer, and 2^32,
\* which is no int.
Priorities ==
    {<<>>, <<"0">>, <<"1">>, <<"2">>, <<"4">>, <<"5">>, <<"6">>, <<"7">>,
     <<"8">>, <<"-", "1">>, <<"3", "x">>, <<"x", "3">>,
     <<"4", "2", "9", "4", "9", "6", "7", "2", "9", "6">>}

\* The record with PRIORITY p that has the mandatory fields only.
Plain(p) ==
    ("PRIORITY" :> p) @@ ("_HOSTNAME" :> <<"h">>) @@ ("_UID" :> Absent) @@
    ("_AUDIT_LOGINUID" :> Absent) @@ ("SYSLOG_IDENTIFIER" :> Absent) @@
    ("_COMM" :> <<"c">>) @@ ("_PID" :> Absent) @@ ("MESSAGE" :> <<"m">>)

Entries ==
    {("PRIORITY" :> p) @@ ("_HOSTNAME" :> h) @@ ("_UID" :> u) @@
     ("_AUDIT_LOGINUID" :> a) @@ ("SYSLOG_IDENTIFIER" :> s) @@ ("_COMM" :> c) @@
     ("_PID" :> d) @@ ("MESSAGE" :> m) :
        p \in FieldValues("PRIORITY"), h \in FieldValues("_HOSTNAME"),
        u \in FieldValues("_UID"), a \in FieldValues("_AUDIT_LOGINUID"),
        s \in FieldValues("SYSLOG_IDENTIFIER"), c \in FieldValues("_COMM"),
        d \in FieldValues("_PID"), m \in FieldValues("MESSAGE")}
    \cup {Plain(p) : p \in Priorities}

\* What sd_journal_get_data hands back for a present field: "FIELD=value".
FieldData(f, v) == FieldName(f) \o <<"=">> \o v

\* ---- std::stol / std::stoi
IsDigit(c) == c \in {"0", "1", "2", "3", "4", "5", "6", "7", "8", "9"}

DigitValue(c) ==
    CASE c = "0" -> 0 [] c = "1" -> 1 [] c = "2" -> 2 [] c = "3" -> 3
      [] c = "4" -> 4 [] c = "5" -> 5 [] c = "6" -> 6 [] c = "7" -> 7
      [] c = "8" -> 8 [] OTHER -> 9

IsSpace(c) == c \in {" ", "\t", "\n"}

RECURSIVE SkipSpace(_)
SkipSpace(str) ==
    IF str # <<>> /\ IsSpace(Head(str)) THEN SkipSpace(Tail(str)) ELSE str

\* The widths of the x86-64 build: long has 64 bits, int and uid_t have 32.
\* A long is kept as its sign and its magnitude in two limbs,
\* hi * Limb + lo with lo < Limb = 2^16.
Limb == 256 * 256

\* The value of the longest run of digits str starts with, after acc.
RECURSIVE DigitRun(_, _)
DigitRun(str, acc) ==
    IF str # <<>> /\ IsDigit(Head(str))
    THEN DigitRun(Tail(str),
                  [hi |-> acc.hi * 10 + (acc.lo * 10 + DigitValue(Head(str))) \div Limb,
                   lo |-> (acc.lo * 10 + DigitValue(Head(str))) % Limb])
    ELSE acc

\* std::stol(str): [ok: no exception, neg, hi, lo: the value].  Leading
\* white space is skipped, one sign is accepted, the digits that follow are
\* converted and what follows them is ignored; no digit throws
\* invalid_argument.  (The strings of this model have at most 13 digits:
\* none is out of the range of long.)
stol(str) ==
    LET body == SkipSpace(str)
        neg == body # <<>> /\ Head(body) = "-"
        signed == body # <<>> /\ Head(body) \in {"+", "-"}
        digits == IF signed THEN Tail(body) ELSE body
        value == DigitRun(digits, [hi |-> 0, lo |-> 0])
    IN  IF digits # <<>> /\ IsDigit(Head(digits))
        THEN [ok |-> TRUE, neg |-> neg, hi |-> value.hi, lo |-> value.lo]
        ELSE [ok |-> FALSE, neg |-> FALSE, hi |-> 0, lo |-> 0]

\* l < 0 for the long l.
IsNegative(l) == l.neg /\ (l.hi # 0 \/ l.lo # 0)

\* std::stoi(str): [ok, v].  As std::stol, and out_of_range is thrown when
\* the value is not one of int.
stoi(str) ==
    LET l == stol(str)
        fits == l.hi < Limb \div 2 \/ (l.neg /\ l.hi = Limb \div 2 /\ l.lo = 0)
    IN  IF l.ok /\ fits
        THEN [ok |-> TRUE,
              v |-> IF l.neg THEN (0 - l.hi) * Limb - l.lo ELSE l.hi * Limb + l.lo]
        ELSE [ok |-> FALSE, v |-> 0]

\* ---- getpwuid: the identity database
NoEntry == <<"<no entry>">>

\* The conversion of the non-negative long l to uid_t, the type of
\* getpwuid's parameter: the low 32 bits.
ToUid(l) == [hi |-> l.hi % Limb, lo |-> l.lo]

\* pw_name of a uid: 0 is root, 7 has an entry with an empty name.
getpwuid(id) ==
    CASE id.hi = 0 /\ id.lo = 0 -> <<"r", "o", "o", "t">>
      [] id.hi = 0 /\ id.lo = 7 -> <<>>
      [] OTHER -> NoEntry

getUsername(uidString) ==
    IF ~stol(uidString).ok THEN uidString
    ELSE IF IsNegative(stol(uidString)) THEN uidString
    ELSE IF getpwuid(ToUid(stol(uidString))) = NoEntry THEN uidString
    ELSE IF Len(getpwuid(ToUid(stol(uidString)))) = 0 THEN uidString
    ELSE getpwuid(ToUid(stol(uidString)))

\* ---- fetchField
\* What one sd_journal_get_data call may return for a field whose value in
\* the record is v: -EAGAIN, another error, and -ENOENT or the data.
Statuses(v) == {"EAGAIN", "EIO"} \cup (IF v = Absent THEN {"ENOENT"} ELSE {"ok"})

\* The loop's test off by one: retries <= 10.
LoopContinuesOffByOne(r) == r + 1 <= RetryLimit

\* A further iteration follows the one that saw -EAGAIN with retries = r.
LoopContinues(r) == r + 1 < RetryLimit

\* The result of the successful call: the data without "FIELD=".
StripPrefix(f, data) == SubSeq(data, Len(FieldName(f)) + 1 + 1, Len(data))

\* One iteration of fetchField's loop, and what follows the loop when it
\* was the last: [again, value, out, err] (out and err: what it writes).
fetchField(f, status, data, r) ==
    IF status = "EAGAIN"
    THEN IF LoopContinues(r)
         THEN [again |-> TRUE, value |-> <<>>, out |-> <<>>, err |-> <<>>]
         ELSE [again |-> FALSE, value |-> <<>>,
               out |-> << <<"Timeout fetching field ">> \o FieldName(f) \o <<"\n">> >>,
               err |-> <<>>]
    ELSE IF status = "ENOENT"
    THEN [again |-> FALSE, value |-> <<>>, out |-> <<>>, err |-> <<>>]
    ELSE IF status # "ok"
    THEN [again |-> FALSE, value |-> <<>>, out |-> <<>>,
          err |-> << <<"Failed to fetch field ">> \o FieldName(f) >>]
    ELSE [again |-> FALSE, value |-> StripPrefix(f, data), out |-> <<>>, err |-> <<>>]

\* The fetch ended in the timeout or in an error.
IsFault(status) == status \in {"EAGAIN", "EIO"}

\* ---- print_journal_message
Dim == <<"ESC[02;37m">>
Reset == <<"ESC[0m">>
Endl == <<"\n">>
\* The formatted realtime timestamp, "%H:%M:%S %b %d ".
Time == <<"HH:MM:SS Mon DD ">>

\* The switch on level.
ColorOf(l) ==
    CASE l = Emergency -> <<"ESC[00;101m">>
      [] l = Alert -> <<"ESC[00;31m">>
      [] l = Critical -> <<"ESC[00;33m">>
      [] l = Error -> <<"ESC[01;33m">>
      [] l = Warning -> <<"ESC[00;93m">>
      [] l = Notice -> <<"ESC[00;32m">>
      [] l = Informational -> <<"ESC[00;39m">>
      [] OTHER -> <<"ESC[00;37m">>

\* level initialised to 0 instead of Debug.
LevelOfZero(v) == IF stoi(v).ok THEN stoi(v).v ELSE Emergency

\* level after std::stoi(fetchField(j, "PRIORITY")) inside the try block.
LevelOf(v) == IF stoi(v).ok THEN stoi(v).v ELSE Debug

\* The identity segment written without the test for an empty uid.
IdentitySegmentAlways(u) == << <<":">>, getUsername(u) >>

\* if (!uid.empty()) std::cout << ":" << getUsername(uid);
IdentitySegment(u) == IF u # <<>> THEN << <<":">>, getUsername(u) >> ELSE <<>>

\* std::cout << " " << identifier;
LabelSegment(id) == << <<" ">>, id >>

\* The PID segment set off from the label by a space.
PidSegmentSpaced(p) == IF p # <<>> THEN << <<" ">>, <<"[">>, p, <<"]">> >> ELSE <<>>

\* if (!pid.empty()) std::cout << "[" << pid << "]";
PidSegment(p) == IF p # <<>> THEN << <<"[">>, p, <<"]">> >> ELSE <<>>

\* The field fetched after f returned v ("done" after MESSAGE).
NextField(f, v) ==
    CASE f = "PRIORITY" -> "_HOSTNAME"
      [] f = "_HOSTNAME" -> "_UID"
      [] f = "_UID" -> IF v = <<>> THEN "_AUDIT_LOGINUID" ELSE "SYSLOG_IDENTIFIER"
      [] f = "_AUDIT_LOGINUID" -> "SYSLOG_IDENTIFIER"
      [] f = "SYSLOG_IDENTIFIER" -> IF v = <<>> THEN "_COMM" ELSE "_PID"
      [] f = "_COMM" -> "_PID"
      [] f = "_PID" -> "MESSAGE"
      [] OTHER -> "done"

\* What print_journal_message writes between fetchField(f) returning v and
\* the next fetchField call (the operands of << are evaluated and written
\* left to right, as C++17 orders them).
Written(f, v, c) ==
    CASE f = "PRIORITY" -> <<Dim, Time>>
      [] f = "_HOSTNAME" -> <<v>>
      [] f = "_UID" -> IF v = <<>> THEN <<>> ELSE IdentitySegment(v)
      [] f = "_AUDIT_LOGINUID" -> IdentitySegment(v)
      [] f = "SYSLOG_IDENTIFIER" -> IF v = <<>> THEN <<>> ELSE LabelSegment(v)
      [] f = "_COMM" -> LabelSegment(v)
      [] f = "_PID" -> PidSegment(v) \o << <<":", " ">>, c >>
      [] OTHER -> <<v, Reset, Endl>>

\* print_journal_message from fetchField(f) returning v to the next call of
\* fetchField, o being standard output at the return.
Resume(f, v, o) ==
    /\ level' = IF f = "PRIORITY" THEN LevelOf(v) ELSE level
    /\ color' = IF f = "PRIORITY" THEN ColorOf(LevelOf(v)) ELSE color
    /\ uid' = IF f \in {"_UID", "_AUDIT_LOGINUID"} THEN v ELSE uid
    /\ identifier' = IF f \in {"SYSLOG_IDENTIFIER", "_COMM"} THEN v ELSE identifier
    /\ stdout' = o \o Written(f, v, color')
    /\ rpc' = NextField(f, v)
    /\ pjmRet' = IF f = "MESSAGE" THEN 0 ELSE pjmRet

\* sd_journal_get_realtime_usec: the record's timestamp, or an error, on
\* which print_journal_message returns it and writes nothing.
RenderStart ==
    /\ rpc = "start"
    /\ \/ /\ rpc' = "PRIORITY"
          /\ level' = Debug
          /\ UNCHANGED pjmRet
       \/ /\ rpc' = "done"
          /\ pjmRet' = 0 - 1
          /\ UNCHANGED level
    /\ UNCHANGED <<entry, retries, statuses, faults, fetched, color, uid,
                   identifier, stdout, stderr>>
    /\ UNCHANGED <<runVars, resolverVars>>

\* One sd_journal_get_data call of the fetchField call in progress, with
\* the rest of that loop iteration; when fetchField returns, with
\* print_journal_message up to its next fetchField call.
GetData ==
    /\ rpc \in Fields
    /\ \E status \in Statuses(entry[rpc]) :
          LET step == fetchField(rpc, status, FieldData(rpc, entry[rpc]), retries) IN
          /\ (~step.again /\ IsFault(status)) => faults < MaxFaults
          /\ statuses' = Append(IF retries = 0 THEN <<>> ELSE statuses, status)
          /\ IF step.again
             THEN /\ retries' = retries + 1
                  /\ UNCHANGED <<rpc, faults, fetched, level, color, uid,
                                 identifier, stdout, stderr, pjmRet>>
             ELSE /\ retries' = 0
                  /\ faults' = IF IsFault(status) THEN faults + 1 ELSE faults
                  /\ fetched' = [fetched EXCEPT ![rpc] = step.value]
                  /\ stderr' = stderr \o step.err
                  /\ Resume(rpc, step.value, stdout \o step.out)
    /\ UNCHANGED entry
    /\ UNCHANGED <<runVars, resolverVars>>

InitRender ==
    /\ RunInit("render", {0}, {0})
    /\ rpc = "start"
    /\ entry \in Entries
    /\ retries = 0
    /\ statuses = <<>>
    /\ faults = 0
    /\ fetched = [f \in Fields |-> NotFetched]
    /\ level = Debug
    /\ color = <<>>
    /\ uid = <<>>
    /\ identifier = <<>>
    /\ stdout = <<>>
    /\ stderr = <<>>
    /\ pjmRet = 1
    /\ ResolverIdle

NextRender ==
    \/ RenderStart
    \/ GetData

SpecRender == InitRender /\ [][NextRender]_vars

\* ---------------------------------------------------------------------
\* getUsername on its own, for every string of UidStrings.
\* ---------------------------------------------------------------------
\* Longest string of UidChars getUsername is called with.
MaxUidLen == 3

UidChars == {"0", "1", "7", "-", "x", " "}

\* 2^32 and 2^32 + 7 in decimal: integers of long that are no uid_t.
WideIds ==
    {<<"4", "2", "9", "4", "9", "6", "7", "2", "9", "6">>,
     <<"4", "2", "9", "4", "9", "6", "7", "3", "0", "3">>}

UidStrings == UNION {[1..k -> UidChars] : k \in 0..MaxUidLen} \cup WideIds

\* One call of getUsername.
CallGetUsername ==
    /\ pc = "resolve"
    /\ username' = getUsername(uidInput)
    /\ pc' = "resolved"
    /\ UNCHANGED <<envVars, handleVars, cursor, pollVars, errno, timeout, i,
                   ioVars, exitVars, staleUse, waited, back, events, wakeVars,
                   reopenVars>>
    /\ UNCHANGED <<printerVars, uidInput>>

InitUsername ==
    /\ RunInit("resolve", {0}, {0})
    /\ PrinterIdle
    /\ uidInput \in UidStrings
    /\ username = <<>>

NextUsername == CallGetUsername

SpecUsername == InitUsername /\ [][NextUsername]_vars

\* ---------------------------------------------------------------------
\* Properties
\* ---------------------------------------------------------------------

\* The lines written to standard output since the last wake-up.
SinceWake == SubSeq(out, wakeOut + 1, Len(out))

LastLines(n, m) == [k \in 1..n |-> Line(m - n + k)]

\* C2: when epoll_wait is called for the first time (no record having been
\* appended since the start), standard output holds exactly the last
\* min(history, N) records of the journal, each once and in order.
C2_StartupReplay ==
    (pc = "epoll_wait" /\ ~waited /\ appended = 0) =>
        out = LastLines(Min(history, N), N)

\* C3: in the reopen path, once the new handle is open and the seek step
\* is over, the cursor is at the captured position when one was captured
\* and the seek succeeded, and at the tail in both other cases.
C3_ReopenSeek ==
    pc = "reopen_get_fd" =>
        IF seek /\ lastSeek = "ok" THEN cursor = AtSeek(usec) ELSE cursor = AtTail

\* C4: at most one handle is open at a time, no closed handle is passed to
\* the library, only descriptors of open handles are registered, at every
\* epoll_wait exactly the descriptor of the open handle is registered, and
\* in the reopen path the old descriptor is deregistered and the old handle
\* closed before the new descriptor is registered.
C4_OneHandle ==
    /\ Cardinality(openHandles) <= 1
    /\ ~staleUse
    /\ epollSet \subseteq openHandles
    /\ pc = "epoll_wait" => (epollSet = {fd} /\ fd = journal /\ openHandles = {journal})
    /\ pc = "reopen_add" => (epollSet = {} /\ openHandles = {journal} /\ fd = journal)

\* The wait is entered on the second handle, after a reopen.
C4_Witness == pc = "epoll_wait" /\ reopens >= 1 /\ journal = 2 /\ epollSet = {2}

\* C5: as long as no reopen has happened, the lines on standard output are
\* in strictly increasing source order (so none is rendered twice).
C5_NoRepeat ==
    reopens = 0 =>
        \A a, b \in 1..Len(out) : a < b => out[a].r < out[b].r

\* C6: an epoll_wait interrupted by a signal leads back to the top of the
\* loop (from where only the next epoll_wait follows) with nothing
\* rendered, the cursor and the registered descriptor unchanged and run()
\* not returned; run() returns from the wait only on an error that is not
\* EINTR.
C6_InterruptedWait ==
    /\ [][(pc = "epoll_wait" /\ events' < 0 /\ errno' = EINTR) =>
             /\ pc' = "get_timeout"
             /\ out' = out
             /\ cursor' = cursor
             /\ epollSet' = epollSet
             /\ fd' = fd
             /\ journal' = journal
             /\ ret' = 0 - 1
             /\ exitCode' = 0 - 1]_vars
    /\ [][pc = "get_timeout" => pc' \in {"get_timeout", "epoll_wait"}]_vars
    /\ [](retFrom = "epoll_wait" => (events < 0 /\ errno # EINTR))

\* Back at the top of the loop after an interrupted wait.
C6_Witness == pc = "get_timeout" /\ events < 0 /\ errno = EINTR /\ ret = 0 - 1

\* C7: a fetchField call makes at most 10 sd_journal_get_data calls, and a
\* status of "absent" is the last one of its call: fetchField has returned.
C7_BoundedAttempts ==
    /\ Len(statuses) <= RetryLimit
    /\ \A k \in 1..Len(statuses) :
          statuses[k] = "ENOENT" => (k = Len(statuses) /\ retries = 0)

\* A fetch that used all 10 attempts and then returned.
C7_Witness ==
    /\ Len(statuses) = RetryLimit
    /\ \A k \in 1..Len(statuses) : statuses[k] = "EAGAIN"
    /\ retries = 0
    /\ faults = 1

\* The value fetchField returned for a field, empty when it was not called.
Fetched(f) == IF fetched[f] = NotFetched THEN <<>> ELSE fetched[f]

\* The line of a record whose fields were fetched as in fetched.
ExpectedLine ==
    <<Dim, Time, Fetched("_HOSTNAME")>>
    \o (IF Fetched("_UID") # <<>> THEN << <<":">>, getUsername(Fetched("_UID")) >>
        ELSE IF Fetched("_AUDIT_LOGINUID") # <<>>
        THEN << <<":">>, getUsername(Fetched("_AUDIT_LOGINUID")) >>
        ELSE <<>>)
    \o << <<" ">>,
          IF Fetched("SYSLOG_IDENTIFIER") # <<>>
          THEN Fetched("SYSLOG_IDENTIFIER") ELSE Fetched("_COMM") >>
    \o (IF Fetched("_PID") # <<>> THEN << <<"[">>, Fetched("_PID"), <<"]">> >> ELSE <<>>)
    \o << <<":", " ">>, ColorOf(level), Fetched("MESSAGE"), Reset, Endl >>

\* Standard output from the first segment of the record's line on.
RECURSIVE FromLineStart(_)
FromLineStart(o) ==
    IF o = <<>> \/ Head(o) = Dim THEN o ELSE FromLineStart(Tail(o))

\* C8: whatever fetches failed, the record's line is on standard output
\* whole, from its first segment to its terminator, with the empty string
\* where a fetch failed and nothing else in between.
C8_LineSurvivesFaults ==
    (rpc = "done" /\ pjmRet = 0) => FromLineStart(stdout) = ExpectedLine

\* C9: standard output carries rendered record lines only.
C9_StdoutOnlyLines == \A k \in 1..Len(out) : out[k].k = "line"

\* C10: a rendered line holds the identity segment exactly if one of the
\* fetched _UID and _AUDIT_LOGINUID values is not empty; the name is then
\* resolved from _UID when that is not empty and from _AUDIT_LOGINUID
\* otherwise, and _AUDIT_LOGINUID is consulted only when _UID is empty.
C10_IdentitySegment ==
    (rpc = "done" /\ pjmRet = 0) =>
        /\ (\E k \in 1..Len(stdout) : stdout[k] = <<":">>)
              <=> (Fetched("_UID") # <<>> \/ Fetched("_AUDIT_LOGINUID") # <<>>)
        /\ \A k \in 1..Len(stdout) :
              stdout[k] = <<":">> =>
                 /\ k < Len(stdout)
                 /\ stdout[k + 1] = getUsername(IF Fetched("_UID") # <<>>
                                                THEN Fetched("_UID")
                                                ELSE Fetched("_AUDIT_LOGINUID"))
        /\ fetched["_AUDIT_LOGINUID"] # NotFetched => fetched["_UID"] = <<>>

\* A line whose identity comes from _AUDIT_LOGINUID, _UID being empty.
C10_Witness ==
    /\ rpc = "done"
    /\ pjmRet = 0
    /\ fetched["_UID"] = <<>>
    /\ fetched["_AUDIT_LOGINUID"] = <<"7">>
    /\ \E k \in 1..Len(stdout) : stdout[k] = <<":">>

\* The characters of a sequence of written strings, as one string.
RECURSIVE Concat(_)
Concat(segs) == IF segs = <<>> THEN <<>> ELSE Head(segs) \o Concat(Tail(segs))

\* The line that the field values val (field name -> string) make up.
RenderedLine(val) ==
    Dim \o Time \o val["_HOSTNAME"]
    \o (IF val["_UID"] # <<>> THEN <<":">> \o getUsername(val["_UID"])
        ELSE IF val["_AUDIT_LOGINUID"] # <<>>
        THEN <<":">> \o getUsername(val["_AUDIT_LOGINUID"])
        ELSE <<>>)
    \o <<" ">>
    \o (IF val["SYSLOG_IDENTIFIER"] # <<>> THEN val["SYSLOG_IDENTIFIER"] ELSE val["_COMM"])
    \o (IF val["_PID"] # <<>> THEN <<"[">> \o val["_PID"] \o <<"]">> ELSE <<>>)
    \o <<":", " ">>
    \o ColorOf(LevelOf(val["PRIORITY"]))
    \o val["MESSAGE"]
    \o Reset
    \o Endl

\* A string written by fetchField's puts, not by print_journal_message.
IsTimeoutNotice(str) == str # <<>> /\ Head(str) = "Timeout fetching field "

\* What print_journal_message itself wrote to standard output.
WrittenByRenderer == SelectSeq(stdout, LAMBDA str : ~IsTimeoutNotice(str))

SeverityColor(p) ==
    CASE p = <<"0">> -> <<"ESC[00;101m">>
      [] p = <<"1">> -> <<"ESC[00;31m">>
      [] p = <<"2">> -> <<"ESC[00;33m">>
      [] p \in {<<"3">>, <<"3", "x">>} -> <<"ESC[01;33m">>
      [] p = <<"4">> -> <<"ESC[00;93m">>
      [] p = <<"5">> -> <<"ESC[00;32m">>
      [] p = <<"6">> -> <<"ESC[00;39m">>
      [] OTHER -> <<"ESC[00;37m">>

\* C12: the colour code written in front of MESSAGE is the Debug colour
\* when PRIORITY is absent, empty, not an integer or an integer outside
\* 0..7 (and when its fetch failed), and the fixed colour of the level when
\* PRIORITY is an integer in 0..7.
C12_SeverityColor ==
    (rpc = "done" /\ pjmRet = 0) =>
        /\ \E k \in 1..(Len(stdout) - 1) : stdout[k] = <<":", " ">>
        /\ \A k \in 1..(Len(stdout) - 1) :
              stdout[k] = <<":", " ">> =>
                  stdout[k + 1] = SeverityColor(Fetched("PRIORITY"))
        /\ fetched["PRIORITY"] \in {entry["PRIORITY"], <<>>}
        /\ (entry["PRIORITY"] # Absent /\ faults = 0) =>
              fetched["PRIORITY"] = entry["PRIORITY"]

\* A line of a record whose PRIORITY is an integer outside 0..7.
C12_Witness ==
    /\ rpc = "done"
    /\ pjmRet = 0
    /\ fetched["PRIORITY"] = <<"8">>
    /\ color = <<"ESC[00;37m">>

\* The identity database's pw_name for the id the long l is: user ids are
\* 32 bits wide, so there is no entry for an id of 2^32 or more.
Database(l) ==
    IF l.hi < Limb THEN getpwuid([hi |-> l.hi, lo |-> l.lo]) ELSE NoEntry

\* C13: getUsername returns for every string; the result is the
\* database's name for the integer the string starts with when that
\* integer is not negative and the database has a non-empty name for it,
\* and the string itself in every other case; the result is empty only
\* when the string is.
C13_UsernameTotal ==
    pc = "resolved" =>
        LET l == stol(uidInput)
            name == IF l.ok /\ ~IsNegative(l) THEN Database(l) ELSE NoEntry
        IN  /\ username = IF name \notin {NoEntry, <<>>} THEN name ELSE uidInput
            /\ username = <<>> => uidInput = <<>>

\* C14: the process never ends with exit code 0 (run() leaves its loop on
\* a failure only, never voluntarily), and it ends with a code other than
\* 0 when the initial open fails, when the open of the reopen path fails
\* and when run() returns after a failed call.
C14_ExitCode ==
    /\ exitCode # 0
    /\ pc = "exited" => exitCode = EXIT_FAILURE
    /\ pc \in {"returned", "exited"} =>
          \/ ret # 0 - 1 /\ retFrom # "none"
          \/ ret = 0 - 1 /\ pc = "exited" /\ journal \notin openHandles

\* The process has ended after run() returned from a failed registration
\* that followed a reopen.
C14_Witness ==
    /\ pc = "exited"
    /\ retFrom = "epoll_ctl"
    /\ reopens >= 1
    /\ exitCode = EXIT_FAILURE

\* C15: after a wake-up classified as none of no-op, append and
\* invalidated, run() is back at the top of the loop or waiting: the handle
\* is still open, nothing was written to standard output and neither
\* run() nor the process has ended.
C15_UnhandledIgnored ==
    lastType = SD_JOURNAL_OTHER =>
        /\ pc \in {"get_timeout", "epoll_wait"}
        /\ sinceWake = "none"
        /\ Len(out) = wakeOut
        /\ journal \in openHandles
        /\ ret = 0 - 1
        /\ exitCode = 0 - 1

\* C16: when run() has returned because sd_journal_seek_tail at its start,
\* sd_journal_get_fd or epoll_ctl(EPOLL_CTL_ADD) failed, the value it
\* returned is not 0.
C16_FailureReported ==
    retFrom \in {"seek_tail", "get_fd", "epoll_ctl"} =>
        (ret # 0 /\ pc \in {"returned", "exited"})

\* C19: an epoll_wait that returned an event is followed by
\* sd_journal_process before run() is back at the top of the loop: once
\* events is greater than 0 and run() is past the call, the event has been
\* classified or run() has returned because the call failed.
C19_FiredIsProcessed ==
    (events > 0 /\ pc # "process") => (lastType # 0 - 1 \/ retFrom = "process")

\* C17: run() returns from the first history loop only when
\* sd_journal_previous failed, never because the start of the journal was
\* reached; on a journal of fewer than history records (none appended
\* since the start) the replay starts on the first record, or at the tail
\* of the empty journal; and when epoll_wait is called for the first time
\* run() has not returned and every record of the journal has been
\* rendered, in source order.
C17_ShortJournal ==
    /\ retFrom = "previous" => back < 0
    /\ (pc = "history_replay" /\ i = 0 /\ appended = 0 /\ N < history) =>
          cursor = IF N = 0 THEN AtTail ELSE AtEntry(1)
    /\ (pc = "epoll_wait" /\ ~waited /\ appended = 0 /\ N < history) =>
          /\ ret = 0 - 1
          /\ \A r \in 1..N : \E k \in 1..Len(out) : out[k] = Line(r)
          /\ \A a, b \in 1..Len(out) : a < b => out[a].r <= out[b].r

\* The first wait on a journal of one record: sd_journal_previous has
\* reported the start of the journal and the record has been rendered.
C17_Witness ==
    /\ pc = "epoll_wait"
    /\ ~waited
    /\ appended = 0
    /\ N = 1
    /\ back = 0
    /\ Len(out) > 0

\* The place in standard output of the latest re-opening notice (0: none).
LastNotice ==
    IF \E k \in 1..Len(out) : out[k].k = "notice"
    THEN CHOOSE k \in 1..Len(out) :
            /\ out[k].k = "notice"
            /\ \A m \in (k + 1)..Len(out) : out[m].k = "line"
    ELSE 0

\* The records rendered before the latest reopen.
RenderedBefore == {out[k].r : k \in {m \in 1..LastNotice : out[m].k = "line"}}

\* The last record rendered before the latest reopen (0: none).
LastBefore ==
    IF RenderedBefore = {} THEN 0
    ELSE CHOOSE r \in RenderedBefore : \A q \in RenderedBefore : q <= r

\* The first append drain after a reopen that captured the position and
\* whose seek succeeded is over, a record having been rendered before that
\* reopen.
FirstDrainAfterReopen ==
    /\ pc \in {"get_timeout", "epoll_wait"}
    /\ lastType = SD_JOURNAL_APPEND
    /\ sinceWake = "drained"
    /\ reopens >= 1
    /\ seek
    /\ lastSeek = "ok"
    /\ wakeOut = LastNotice
    /\ LastBefore > 0

\* C20: the first append drain after a reopen that captured the position
\* and whose seek succeeded renders a run of consecutive records in source
\* order that holds every record after the last one rendered before the
\* reopen, up to the last record present at the wake-up, and at most 2
\* records that had been rendered before the reopen.
C20_ResumeAfterReopen ==
    FirstDrainAfterReopen =>
        /\ \A k \in 1..Len(SinceWake) : SinceWake[k] = Line(SinceWake[1].r + k - 1)
        /\ \A r \in (LastBefore + 1)..wakeN :
              \E k \in 1..Len(SinceWake) : SinceWake[k] = Line(r)
        /\ Cardinality({k \in 1..Len(SinceWake) : SinceWake[k].r \in RenderedBefore}) <= 2

\* C18: whenever epoll_wait is called, the timeout it is given is infinite
\* or greater than 0, whatever sd_journal_get_timeout answered in this and
\* in earlier iterations; and the conversion of "no timeout" is 1000 ms.
C18_NoBusySpin ==
    /\ ConvertTimeout(NoTimeout) = 1000
    /\ pc = "epoll_wait" => (timeout = NoTimeout \/ timeout > 0)

====
